---- MODULE Spec2Model ----
(***************************************************************************)
(* Model of merolagani_scraper.py: the broker-stock aggregation and merge  *)
(* (MerolaganiFloorsheetScraper.aggregate_broker_stock_data).              *)
(*                                                                         *)
(* Quantities are integers.  Amounts are modelled as integers (minor       *)
(* units), so sums are exact; a quotient amount / quantity is the reduced  *)
(* fraction <<numerator, denominator>>.  A parquet file is "absent", a     *)
(* "table" (a sequence of rows) or "corrupt" (exists, cannot be read).     *)
(***************************************************************************)
EXTENDS Integers, Sequences, FiniteSets, TLC

\* Total number of transaction records handed to the program over a behaviour.
MaxRecords == 3

\* Brokers as (id, name) pairs, in the lexicographic order groupby sorts them in.
\* One id with two name variants: the key is the triple, not the id.
BrokerSeq == << <<"1", "One">>, <<"1", "Uno">> >>
SymbolSeq == << "ABC", "XYZ" >>
Dates == {"2024-01-01", "2024-01-02"}
\* (quantity, amount) of a trade: unit prices 10 and 30.
Trades == { <<1, 10>>, <<2, 60>> }

Brokers == {BrokerSeq[i] : i \in DOMAIN BrokerSeq}
Symbols == {SymbolSeq[i] : i \in DOMAIN SymbolSeq}

\* Every (broker_id, broker_name, symbol) tuple, in sorted order.
KeySeq ==
  [n \in 1..(Len(BrokerSeq) * Len(SymbolSeq)) |->
     LET b == BrokerSeq[((n - 1) \div Len(SymbolSeq)) + 1]
         s == SymbolSeq[((n - 1) % Len(SymbolSeq)) + 1]
     IN <<b[1], b[2], s>>]

\* A transaction dict as _extract_transactions builds it.
Transaction(d, b, s, sym, t) ==
  [date |-> d, symbol |-> sym,
   buyer_id |-> b[1], buyer_name |-> b[2],
   seller_id |-> s[1], seller_name |-> s[2],
   quantity |-> t[1], amount |-> t[2]]

\* Records on the first symbol.
Records ==
  {Transaction(d, b, s, sym, t) :
     d \in Dates, b \in Brokers, s \in Brokers, sym \in {SymbolSeq[1]}, t \in Trades}

\* Records between two different brokers, on every symbol.
CrossRecords ==
  {Transaction(d, p[1], p[2], sym, t) :
     d \in Dates, p \in {q \in Brokers \X Brokers : q[1] # q[2]},
     sym \in Symbols, t \in Trades}

\* A record dict built without its 'quantity' or 'amount' entry: the DataFrame
\* column holds NaN there.
DropField(r, f) == [g \in (DOMAIN r) \ {f} |-> r[g]]
BadRecords ==
  {DropField(r, f) : r \in {x \in Records : x.date = "2024-01-01"},
                     f \in {"quantity", "amount"}}

\* DataFrames of at most n rows over the record set R.
Frames(R, n) == UNION {[1..m -> R] : m \in 0..n}

\* The frames scrape_floorsheet builds: every record of a run carries the run's
\* current_date (line 135).
Redate(f, d) == [i \in DOMAIN f |-> [f[i] EXCEPT !.date = d]]
ScrapedFrames(R, n) ==
  {Redate(f, d) : f \in Frames({r \in R : r.date = "2024-01-01"}, n), d \in Dates}

Absent == [kind |-> "absent"]
Corrupt == [kind |-> "corrupt"]
Table(rows) == [kind |-> "table", rows |-> rows]

----------------------------------------------------------------------------
\* Arithmetic

Abs(x) == IF x < 0 THEN 0 - x ELSE x

RECURSIVE Gcd(_, _)
Gcd(a, b) == IF b = 0 THEN a ELSE Gcd(b, a % b)

\* Python's a / b for b > 0, as a reduced fraction.
Divide(a, b) ==
  LET g == Gcd(Abs(a), b) IN << a \div g, b \div g >>

\* The literal 0 of the else branches, in the same column as the quotients.
Zero == << 0, 1 >>

----------------------------------------------------------------------------
\* Batch aggregation (lines 333-417)

SideKey(r, side) ==
  IF side = "buyer" THEN << r.buyer_id, r.buyer_name, r.symbol >>
  ELSE << r.seller_id, r.seller_name, r.symbol >>

\* Mutant of CurrentDate: the date of the last record.
CurrentDateLast(data) == data[Len(data)].date

\* data['date'].iloc[0]
CurrentDate(data) == data[1].date

\* A column named in .agg() must exist: a column no record carries raises KeyError.
ColumnsPresent(data) ==
  /\ \E i \in DOMAIN data : "quantity" \in DOMAIN data[i]
  /\ \E i \in DOMAIN data : "amount" \in DOMAIN data[i]

\* Mutant of GroupSum: the group's first value instead of its sum ('first' for 'sum').
RECURSIVE GroupFirst(_, _, _, _)
GroupFirst(data, side, key, col) ==
  IF data = << >> THEN 0
  ELSE LET r == Head(data)
       IN IF SideKey(r, side) = key /\ col \in DOMAIN r THEN r[col]
          ELSE GroupFirst(Tail(data), side, key, col)

\* groupby(...).agg(sum) of one column for one group: rows folded in frame order,
\* NaN entries skipped (skipna).
RECURSIVE GroupSum(_, _, _, _)
GroupSum(data, side, key, col) ==
  IF data = << >> THEN 0
  ELSE LET r == Head(data)
           v == IF SideKey(r, side) = key /\ col \in DOMAIN r THEN r[col] ELSE 0
       IN v + GroupSum(Tail(data), side, key, col)

\* groupby(...).agg(...).reset_index(): one row per distinct group key, keys sorted.
GroupBy(data, side) ==
  LET present(k) == \E i \in DOMAIN data : SideKey(data[i], side) = k
      keys == SelectSeq(KeySeq, present)
  IN [n \in DOMAIN keys |->
        [key |-> keys[n],
         quantity |-> GroupSum(data, side, keys[n], "quantity"),
         amount |-> GroupSum(data, side, keys[n], "amount")]]

\* Position of key in a sequence of rows (0 when absent); a row's key is its
\* (broker_id, broker_name, symbol).
RowKey(row) == << row.broker_id, row.broker_name, row.symbol >>
HasKey(rows, key) == \E i \in DOMAIN rows : RowKey(rows[i]) = key
IndexOf(rows, key) == CHOOSE i \in DOMAIN rows : RowKey(rows[i]) = key

\* Mutant of AddBuy: the bought amount is not recorded.
AddBuyNoAmount(aggs, g, current_date) ==
  IF ~HasKey(aggs, g.key)
  THEN Append(aggs, [broker_id |-> g.key[1], broker_name |-> g.key[2],
                     symbol |-> g.key[3],
                     buy_quantity |-> g.quantity, buy_amount |-> 0,
                     sell_quantity |-> 0, sell_amount |-> 0,
                     last_updated |-> current_date])
  ELSE LET i == IndexOf(aggs, g.key)
       IN [aggs EXCEPT ![i].buy_quantity = @ + g.quantity]

\* One iteration of the loop over buy_data (lines 349-364).
AddBuy(aggs, g, current_date) ==
  IF ~HasKey(aggs, g.key)
  THEN Append(aggs, [broker_id |-> g.key[1], broker_name |-> g.key[2],
                     symbol |-> g.key[3],
                     buy_quantity |-> g.quantity, buy_amount |-> g.amount,
                     sell_quantity |-> 0, sell_amount |-> 0,
                     last_updated |-> current_date])
  ELSE LET i == IndexOf(aggs, g.key)
       IN [aggs EXCEPT ![i].buy_quantity = @ + g.quantity,
                       ![i].buy_amount = @ + g.amount]

\* Mutant of AddSell: a sale on a key that also bought is netted against the purchase.
AddSellNetting(aggs, g, current_date) ==
  IF ~HasKey(aggs, g.key)
  THEN Append(aggs, [broker_id |-> g.key[1], broker_name |-> g.key[2],
                     symbol |-> g.key[3],
                     buy_quantity |-> 0, buy_amount |-> 0,
                     sell_quantity |-> g.quantity, sell_amount |-> g.amount,
                     last_updated |-> current_date])
  ELSE LET i == IndexOf(aggs, g.key)
       IN [aggs EXCEPT ![i].buy_quantity = @ - g.quantity,
                       ![i].buy_amount = @ - g.amount]

\* One iteration of the loop over sell_data (lines 373-388).
AddSell(aggs, g, current_date) ==
  IF ~HasKey(aggs, g.key)
  THEN Append(aggs, [broker_id |-> g.key[1], broker_name |-> g.key[2],
                     symbol |-> g.key[3],
                     buy_quantity |-> 0, buy_amount |-> 0,
                     sell_quantity |-> g.quantity, sell_amount |-> g.amount,
                     last_updated |-> current_date])
  ELSE LET i == IndexOf(aggs, g.key)
       IN [aggs EXCEPT ![i].sell_quantity = @ + g.quantity,
                       ![i].sell_amount = @ + g.amount]

RECURSIVE FoldBuys(_, _, _)
FoldBuys(aggs, groups, current_date) ==
  IF groups = << >> THEN aggs
  ELSE FoldBuys(AddBuy(aggs, Head(groups), current_date), Tail(groups), current_date)

RECURSIVE FoldSells(_, _, _)
FoldSells(aggs, groups, current_date) ==
  IF groups = << >> THEN aggs
  ELSE FoldSells(AddSell(aggs, Head(groups), current_date), Tail(groups), current_date)

\* broker_stock_aggs after both loops, in insertion order.
BrokerStockAggs(data) ==
  FoldSells(FoldBuys(<< >>, GroupBy(data, "buyer"), CurrentDate(data)),
            GroupBy(data, "seller"), CurrentDate(data))

\* Mutant of WithMetrics: a short position is priced too (net != 0 for net > 0).
WithMetricsShortPriced(a) ==
  LET net == a.buy_quantity - a.sell_quantity
  IN [broker_id |-> a.broker_id, broker_name |-> a.broker_name, symbol |-> a.symbol,
      buy_quantity |-> a.buy_quantity, buy_amount |-> a.buy_amount,
      sell_quantity |-> a.sell_quantity, sell_amount |-> a.sell_amount,
      last_updated |-> a.last_updated,
      avg_buy_price |-> IF a.buy_quantity > 0
                        THEN Divide(a.buy_amount, a.buy_quantity) ELSE Zero,
      avg_sell_price |-> IF a.sell_quantity > 0
                         THEN Divide(a.sell_amount, a.sell_quantity) ELSE Zero,
      net_quantity |-> net,
      avg_holding_price |-> IF net # 0
                            THEN Divide(Abs(a.buy_amount - a.sell_amount), Abs(net))
                            ELSE Zero]

\* The four derived columns of agg_df (lines 394-417).
WithMetrics(a) ==
  LET net == a.buy_quantity - a.sell_quantity
  IN [broker_id |-> a.broker_id, broker_name |-> a.broker_name, symbol |-> a.symbol,
      buy_quantity |-> a.buy_quantity, buy_amount |-> a.buy_amount,
      sell_quantity |-> a.sell_quantity, sell_amount |-> a.sell_amount,
      last_updated |-> a.last_updated,
      avg_buy_price |-> IF a.buy_quantity > 0
                        THEN Divide(a.buy_amount, a.buy_quantity) ELSE Zero,
      avg_sell_price |-> IF a.sell_quantity > 0
                         THEN Divide(a.sell_amount, a.sell_quantity) ELSE Zero,
      net_quantity |-> net,
      avg_holding_price |-> IF net > 0
                            THEN Divide(a.buy_amount - a.sell_amount, net) ELSE Zero]

\* agg_df: the batch-local aggregates.
AggDf(data) ==
  LET aggs == BrokerStockAggs(data)
  IN [i \in DOMAIN aggs |-> WithMetrics(aggs[i])]

----------------------------------------------------------------------------
\* Merge with the existing store (lines 419-492)

\* existing_records: the dict built from existing_df.iterrows() (lines 427-430),
\* as the sequence of its values in insertion order; a repeated key overwrites.
RECURSIVE ExistingRecords(_, _)
ExistingRecords(acc, rows) ==
  IF rows = << >> THEN acc
  ELSE LET row == Head(rows)
           nxt == IF HasKey(acc, RowKey(row))
                  THEN [acc EXCEPT ![IndexOf(acc, RowKey(row))] = row]
                  ELSE Append(acc, row)
       IN ExistingRecords(nxt, Tail(rows))

\* Mutant of UpdatedRecord: the batch's sums replace the stored ones.
UpdatedRecordOverwrite(existing, record, current_date) ==
  [record EXCEPT !.last_updated = current_date]

\* Mutant of UpdatedRecord: sums added, the averages carried over from the batch row.
UpdatedRecordStaleAverages(existing, record, current_date) ==
  [record EXCEPT !.buy_quantity = existing.buy_quantity + record.buy_quantity,
                 !.buy_amount = existing.buy_amount + record.buy_amount,
                 !.sell_quantity = existing.sell_quantity + record.sell_quantity,
                 !.sell_amount = existing.sell_amount + record.sell_amount,
                 !.net_quantity = (existing.buy_quantity + record.buy_quantity)
                                  - (existing.sell_quantity + record.sell_quantity),
                 !.last_updated = current_date]

\* Mutant of UpdatedRecord: a row already stamped with the batch's date is taken
\* as merged and kept as it is (a replay guard by date).
UpdatedRecordSkipSameDate(existing, record, current_date) ==
  IF existing.last_updated = current_date THEN existing
  ELSE [record EXCEPT !.buy_quantity = existing.buy_quantity + record.buy_quantity,
                      !.buy_amount = existing.buy_amount + record.buy_amount,
                      !.sell_quantity = existing.sell_quantity + record.sell_quantity,
                      !.sell_amount = existing.sell_amount + record.sell_amount,
                      !.last_updated = current_date]

\* updated_record (lines 445-470).
UpdatedRecord(existing, record, current_date) ==
  LET new_buy_quantity == existing.buy_quantity + record.buy_quantity
      new_buy_amount == existing.buy_amount + record.buy_amount
      new_sell_quantity == existing.sell_quantity + record.sell_quantity
      new_sell_amount == existing.sell_amount + record.sell_amount
      new_net_quantity == new_buy_quantity - new_sell_quantity
  IN [broker_id |-> record.broker_id, broker_name |-> record.broker_name,
      symbol |-> record.symbol,
      buy_quantity |-> new_buy_quantity, buy_amount |-> new_buy_amount,
      sell_quantity |-> new_sell_quantity, sell_amount |-> new_sell_amount,
      avg_buy_price |-> IF new_buy_quantity > 0
                        THEN Divide(new_buy_amount, new_buy_quantity) ELSE Zero,
      avg_sell_price |-> IF new_sell_quantity > 0
                         THEN Divide(new_sell_amount, new_sell_quantity) ELSE Zero,
      net_quantity |-> new_net_quantity,
      avg_holding_price |-> IF new_net_quantity > 0
                            THEN Divide(new_buy_amount - new_sell_amount, new_net_quantity)
                            ELSE Zero,
      last_updated |-> current_date]

\* existing_records.pop(key)
Pop(existing, key) ==
  SelectSeq(existing, LAMBDA row : RowKey(row) # key)

\* The loop over agg_df (lines 436-477): st is (merged_records, existing_records).
RECURSIVE MergeLoop(_, _, _, _)
MergeLoop(merged, existing, agg, current_date) ==
  IF agg = << >> THEN << merged, existing >>
  ELSE LET record == Head(agg)
           key == RowKey(record)
       IN IF HasKey(existing, key)
          THEN MergeLoop(
                 Append(merged,
                        UpdatedRecord(existing[IndexOf(existing, key)], record, current_date)),
                 Pop(existing, key), Tail(agg), current_date)
          ELSE MergeLoop(Append(merged, record), existing, Tail(agg), current_date)

\* Mutant of MergedRecords: the rows no batch key touched are not added back.
MergedRecordsUpdatedOnly(existing_rows, agg, current_date) ==
  MergeLoop(<< >>, ExistingRecords(<< >>, existing_rows), agg, current_date)[1]

\* Mutant of MergedRecords: every row written is stamped with the batch's date.
MergedRecordsRestamp(existing_rows, agg, current_date) ==
  LET st == MergeLoop(<< >>, ExistingRecords(<< >>, existing_rows), agg, current_date)
      all == st[1] \o st[2]
  IN [i \in DOMAIN all |-> [all[i] EXCEPT !.last_updated = current_date]]

\* aggregated_df of the merge branch: updated and new rows, then the existing
\* rows no batch key touched (lines 480-484).
MergedRecords(existing_rows, agg, current_date) ==
  LET st == MergeLoop(<< >>, ExistingRecords(<< >>, existing_rows), agg, current_date)
  IN st[1] \o st[2]

\* Mutant of AggregatedDf: only keys the file already holds are merged.
AggregatedDfKnownKeysOnly(file, data) ==
  IF file.kind = "table"
  THEN MergedRecords(file.rows,
                     SelectSeq(AggDf(data), LAMBDA row : HasKey(file.rows, RowKey(row))),
                     CurrentDate(data))
  ELSE AggDf(data)

\* aggregated_df (lines 420-492): merge with a readable file, the batch alone
\* when the file is absent or reading it raises.
AggregatedDf(file, data) ==
  IF file.kind = "table"
  THEN MergedRecords(file.rows, AggDf(data), CurrentDate(data))
  ELSE AggDf(data)

\* What a run is handed besides the frame: whether pq.write_table completes
\* ("none"), raises after opening the file, which it then removes ("removed"),
\* or is cut short with the file partly written ("partial").
WriteFaults == {"none", "removed", "partial"}

\* pq.write_table(table, output_file) (line 500): the file after the call.
WriteTable(rows, wf) ==
  IF wf = "none" THEN Table(rows)
  ELSE IF wf = "removed" THEN Absent
  ELSE Corrupt

\* Mutant of AggregateBrokerStockData: an unreadable file aborts the run.
AggregateBrokerStockDataAbort(file, df, wf) ==
  IF df = << >> THEN [file |-> file, ret |-> FALSE]
  ELSE IF ~ColumnsPresent(df) THEN [file |-> file, ret |-> FALSE]
  ELSE IF file.kind = "corrupt" THEN [file |-> file, ret |-> FALSE]
  ELSE [file |-> WriteTable(AggregatedDf(file, df), wf), ret |-> (wf = "none")]

\* Mutant of AggregateBrokerStockData: an empty frame is reported as a success.
AggregateBrokerStockDataEmptyOk(file, df, wf) ==
  IF df = << >> THEN [file |-> file, ret |-> TRUE]
  ELSE IF ~ColumnsPresent(df) THEN [file |-> file, ret |-> FALSE]
  ELSE [file |-> WriteTable(AggregatedDf(file, df), wf), ret |-> (wf = "none")]

\* aggregate_broker_stock_data(df, output_file): the file afterwards and the
\* value returned.
AggregateBrokerStockData(file, df, wf) ==
  IF df = << >> THEN [file |-> file, ret |-> FALSE]
  ELSE IF ~ColumnsPresent(df) THEN [file |-> file, ret |-> FALSE]
  ELSE [file |-> WriteTable(AggregatedDf(file, df), wf), ret |-> (wf = "none")]

----------------------------------------------------------------------------
\* State

VARIABLES
  store,      \* the aggregate store file
  alt,        \* a second aggregate file (another output_file)
  prev,       \* the store file as the last run found it
  batch,      \* the frame handed to the last run
  fault,      \* the write fault handed to the last run
  ret,        \* what the last run returned ("none" before the first run)
  merged,     \* keys of every frame a run on the store returning True was handed
  nrec,       \* records handed to the program so far
  phase,      \* position in a two-file comparison
  first,      \* the first frame of a comparison
  second,     \* the second frame of a comparison
  aggFirst,   \* agg_df computed from first
  aggSecond,  \* agg_df computed from second
  touched,    \* per key, the date of the last frame with the key that a run merged
  lastGood,   \* the last table the store held before the last run
  raw,        \* the raw-transaction store file
  rawPrev,    \* the raw store as the last save found it
  rawBatch,   \* the frame handed to the last save, as the save left it
  rawRet,     \* what the last save returned ("none" before the first save)
  rawSeen,    \* (date, transaction_no) of every record a save returning True was handed
  resaved     \* whether the last save repeated the one before it

histVars == << touched, lastGood >>
rawVars == << raw, rawPrev, rawBatch, rawRet, rawSeen, resaved >>
cmpVars == << alt, phase, first, second, aggFirst, aggSecond >>
aggVars == << store, prev, batch, fault, ret, merged, nrec >>

vars == << aggVars, cmpVars, histVars, rawVars >>

AllKeys == {KeySeq[i] : i \in DOMAIN KeySeq}

FrameKeys(df) ==
  {SideKey(df[i], "buyer") : i \in DOMAIN df} \cup {SideKey(df[i], "seller") : i \in DOMAIN df}

Init ==
  /\ store = Absent
  /\ alt = Absent
  /\ prev = Absent
  /\ batch = << >>
  /\ fault = "none"
  /\ ret = "none"
  /\ merged = {}
  /\ nrec = 0
  /\ phase = "seed"
  /\ first = << >>
  /\ second = << >>
  /\ aggFirst = << >>
  /\ aggSecond = << >>
  /\ touched = [k \in AllKeys |-> "never"]
  /\ lastGood = Absent
  /\ raw = Absent
  /\ rawPrev = Absent
  /\ rawBatch = << >>
  /\ rawRet = "none"
  /\ rawSeen = {}
  /\ resaved = FALSE

\* One call of aggregate_broker_stock_data(df, output_file) on the store.
AggregateRun(df, wf) ==
  LET r == AggregateBrokerStockData(store, df, wf)
  IN /\ nrec + Len(df) <= MaxRecords
     /\ store' = r.file
     /\ prev' = store
     /\ batch' = df
     /\ fault' = wf
     /\ ret' = IF r.ret THEN "True" ELSE "False"
     /\ merged' = IF r.ret THEN merged \cup FrameKeys(df) ELSE merged
     /\ nrec' = nrec + Len(df)
     /\ UNCHANGED rawVars

\* A scraping run's frame aggregated into the store (main, lines 530-535, without
\* its guard on an empty frame).
Run ==
  \E df \in ScrapedFrames(Records, MaxRecords - nrec), wf \in WriteFaults :
     /\ AggregateRun(df, wf)
     /\ UNCHANGED << cmpVars, histVars >>

Next == Run

Spec == Init /\ [][Next]_vars

----------------------------------------------------------------------------
\* Frames with a record that lacks a numeric field

RunMalformed ==
  \E df \in ScrapedFrames(Records \cup BadRecords, MaxRecords - nrec) :
     /\ AggregateRun(df, "none")
     /\ UNCHANGED << cmpVars, histVars >>

NextMalformed == RunMalformed

SpecMalformed == Init /\ [][NextMalformed]_vars

----------------------------------------------------------------------------
\* Two files: frames A then B into the store, the frame A ++ B into alt

\* The same call on both files while they still hold the same content S.
SeedBoth ==
  /\ phase = "seed"
  /\ \E df \in ScrapedFrames(Records, MaxRecords - nrec), wf \in WriteFaults :
        /\ df # << >>
        /\ AggregateRun(df, wf)
        /\ alt' = AggregateBrokerStockData(alt, df, wf).file
        /\ UNCHANGED << phase, first, second, aggFirst, aggSecond, histVars >>

RunFirst ==
  /\ phase = "seed"
  /\ \E df \in ScrapedFrames(Records, MaxRecords - nrec) :
        /\ df # << >>
        /\ AggregateRun(df, "none")
        /\ first' = df
        /\ phase' = "first"
        /\ UNCHANGED << alt, second, aggFirst, aggSecond, histVars >>

RunSecond ==
  /\ phase = "first"
  /\ \E df \in ScrapedFrames(Records, MaxRecords - nrec) :
        /\ df # << >>
        /\ AggregateRun(df, "none")
        /\ second' = df
        /\ phase' = "second"
        /\ UNCHANGED << alt, first, aggFirst, aggSecond, histVars >>

RunCombined ==
  /\ phase = "second"
  /\ alt' = AggregateBrokerStockData(alt, first \o second, "none").file
  /\ phase' = "done"
  /\ UNCHANGED << aggVars, first, second, aggFirst, aggSecond, histVars, rawVars >>

NextAssoc == SeedBoth \/ RunFirst \/ RunSecond \/ RunCombined

SpecAssoc == Init /\ [][NextAssoc]_vars

----------------------------------------------------------------------------
\* The batch aggregator on a frame and on a permutation of it

Perms(n) == {p \in [1..n -> 1..n] : \A i, j \in 1..n : p[i] = p[j] => i = j}
Permute(df, p) == [i \in DOMAIN df |-> df[p[i]]]

AggregateBoth ==
  /\ phase = "seed"
  /\ \E df \in ScrapedFrames(Records, MaxRecords) \ {<< >>} :
       \E p \in Perms(Len(df)) :
          /\ first' = df
          /\ second' = Permute(df, p)
          /\ aggFirst' = AggDf(df)
          /\ aggSecond' = AggDf(Permute(df, p))
          /\ phase' = "done"
          /\ UNCHANGED << aggVars, alt, histVars, rawVars >>

NextPerm == AggregateBoth

SpecPerm == Init /\ [][NextPerm]_vars

----------------------------------------------------------------------------
\* Two files: frames A then B into the store, B then A into alt, A and B sharing
\* no key

CommSeed ==
  /\ phase = "seed"
  /\ \E df \in ScrapedFrames(CrossRecords, MaxRecords - nrec) \ {<< >>},
        wf \in {"none", "partial"} :
        /\ AggregateRun(df, wf)
        /\ alt' = AggregateBrokerStockData(alt, df, wf).file
        /\ UNCHANGED << phase, first, second, aggFirst, aggSecond, histVars >>

CommFirst ==
  /\ phase = "seed"
  /\ \E df \in ScrapedFrames(CrossRecords, MaxRecords - nrec) \ {<< >>} :
        /\ AggregateRun(df, "none")
        /\ first' = df
        /\ phase' = "first"
        /\ UNCHANGED << alt, second, aggFirst, aggSecond, histVars >>

CommSecond ==
  /\ phase = "first"
  /\ \E df \in ScrapedFrames(CrossRecords, MaxRecords - nrec) \ {<< >>} :
        /\ FrameKeys(df) \cap FrameKeys(first) = {}
        /\ AggregateRun(df, "none")
        /\ second' = df
        /\ phase' = "second"
        /\ UNCHANGED << alt, first, aggFirst, aggSecond, histVars >>

CommReverse ==
  /\ phase = "second"
  /\ alt' = AggregateBrokerStockData(
              AggregateBrokerStockData(alt, second, "none").file, first, "none").file
  /\ phase' = "done"
  /\ UNCHANGED << aggVars, first, second, aggFirst, aggSecond, histVars, rawVars >>

NextComm == CommSeed \/ CommFirst \/ CommSecond \/ CommReverse

SpecComm == Init /\ [][NextComm]_vars

----------------------------------------------------------------------------
\* Runs on frames whose records carry different dates, with the history of what
\* was merged

\* Records of quantity 1, of either date.
DateRecords == {r \in Records : r.quantity = 1}

RunTracked ==
  \E df \in Frames(DateRecords, MaxRecords - nrec), wf \in WriteFaults :
     /\ AggregateRun(df, wf)
     /\ touched' = IF AggregateBrokerStockData(store, df, wf).ret
                   THEN [k \in AllKeys |->
                           IF k \in FrameKeys(df) THEN df[1].date ELSE touched[k]]
                   ELSE touched
     /\ lastGood' = IF store.kind = "table" THEN store ELSE lastGood
     /\ UNCHANGED cmpVars

NextTracked == RunTracked

SpecTracked == Init /\ [][NextTracked]_vars

----------------------------------------------------------------------------
\* The raw-transaction store (save_to_parquet, lines 223-287)

TransactionNos == {"1", "2"}

\* Scraped records with their transaction_no; the same (date, transaction_no)
\* may come with either trade.
RawRecords ==
  {[date |-> d, transaction_no |-> n, symbol |-> SymbolSeq[1],
    buyer_id |-> BrokerSeq[1][1], buyer_name |-> BrokerSeq[1][2],
    seller_id |-> BrokerSeq[2][1], seller_name |-> BrokerSeq[2][2],
    quantity |-> t[1], amount |-> t[2]] :
     d \in Dates, n \in TransactionNos, t \in Trades}

HasColumn(df, col) == \E i \in DOMAIN df : col \in DOMAIN df[i]

\* df['key'] = df['date'] + '-' + df['transaction_no'] (lines 255-256)
WithKey(df) ==
  [i \in DOMAIN df |->
     [f \in (DOMAIN df[i]) \cup {"key"} |->
        IF f = "key" THEN df[i].date \o "-" \o df[i].transaction_no ELSE df[i][f]]]

\* .drop(columns=['key']) (lines 260-261)
DropKey(df) ==
  [i \in DOMAIN df |-> [f \in (DOMAIN df[i]) \ {"key"} |-> df[i][f]]]

\* df[~df['key'].isin(existing_df['key'])] (line 259)
NotIn(df, existing) ==
  SelectSeq(df, LAMBDA r : \A i \in DOMAIN existing : existing[i].key # r.key)

\* Mutant of SaveToParquet: a batch row replaces the stored row of its key.
SaveToParquetLastWins(file, df, append, wf) ==
  IF df = << >> THEN [file |-> file, ret |-> "None", df |-> df]
  ELSE IF append /\ file.kind = "table"
       THEN LET kept == DropKey(NotIn(WithKey(file.rows), WithKey(df)))
            IN [file |-> WriteTable(kept \o df, wf),
                ret |-> IF wf = "none" THEN "True" ELSE "False", df |-> WithKey(df)]
       ELSE [file |-> WriteTable(df, wf),
             ret |-> IF wf = "none" THEN "True" ELSE "False", df |-> df]

\* Mutant of SaveToParquet: every batch row is appended, duplicates included.
SaveToParquetAppendAll(file, df, append, wf) ==
  IF df = << >> THEN [file |-> file, ret |-> "None", df |-> df]
  ELSE IF append /\ file.kind = "table"
       THEN [file |-> WriteTable(file.rows \o df, wf),
             ret |-> IF wf = "none" THEN "True" ELSE "False", df |-> df]
       ELSE [file |-> WriteTable(df, wf),
             ret |-> IF wf = "none" THEN "True" ELSE "False", df |-> df]

\* save_to_parquet(df, output_file, append): the file afterwards, the value
\* returned, and the caller's frame, which gains a 'key' column on the dedup path.
SaveToParquet(file, df, append, wf) ==
  IF df = << >> THEN [file |-> file, ret |-> "None", df |-> df]
  ELSE IF append /\ file.kind = "table"
       THEN IF HasColumn(df, "date") /\ HasColumn(df, "transaction_no")
            THEN LET keyed == WithKey(df)
                     existing == WithKey(file.rows)
                     new_records == DropKey(NotIn(keyed, existing))
                     combined_df == DropKey(existing) \o new_records
                 IN [file |-> WriteTable(combined_df, wf),
                     ret |-> IF wf = "none" THEN "True" ELSE "False",
                     df |-> keyed]
            ELSE [file |-> WriteTable(file.rows \o df, wf),
                  ret |-> IF wf = "none" THEN "True" ELSE "False", df |-> df]
       \* no file, append off, or the read raised: the table built from df alone
       ELSE [file |-> WriteTable(df, wf),
             ret |-> IF wf = "none" THEN "True" ELSE "False", df |-> df]

RawKeys(df) == {<< df[i].date, df[i].transaction_no >> : i \in DOMAIN df}

\* save_to_parquet(df, output_file, append=True), as save_outputs calls it (line 307).
Save ==
  \E df \in Frames(RawRecords, MaxRecords - nrec), wf \in WriteFaults :
     LET r == SaveToParquet(raw, df, TRUE, wf)
     IN /\ raw' = r.file
        /\ rawPrev' = raw
        /\ rawBatch' = r.df
        /\ rawRet' = r.ret
        /\ rawSeen' = IF r.ret = "True" THEN rawSeen \cup RawKeys(df) ELSE rawSeen
        /\ resaved' = FALSE
        /\ nrec' = nrec + Len(df)
        /\ UNCHANGED << store, prev, batch, fault, ret, merged, cmpVars, histVars >>

\* The frame of the last save handed to save_to_parquet once more.
Resave ==
  /\ rawRet = "True"
  /\ ~resaved
  /\ LET r == SaveToParquet(raw, rawBatch, TRUE, "none")
     IN /\ raw' = r.file
        /\ rawPrev' = raw
        /\ rawBatch' = r.df
        /\ rawRet' = r.ret
        /\ resaved' = TRUE
        /\ UNCHANGED << rawSeen, aggVars, cmpVars, histVars >>

NextRaw == Save \/ Resave

SpecRaw == Init /\ [][NextRaw]_vars

----------------------------------------------------------------------------
\* Properties

KeysOf(file) ==
  IF file.kind = "table" THEN {RowKey(file.rows[i]) : i \in DOMAIN file.rows} ELSE {}

RowsOf(rows, key) == {rows[i] : i \in {n \in DOMAIN rows : RowKey(rows[n]) = key}}

CountOf(rows, key) == Cardinality({n \in DOMAIN rows : RowKey(rows[n]) = key})

\* A row without its last_updated: key, four sums, four derived fields.
StripDate(row) == [f \in (DOMAIN row) \ {"last_updated"} |-> row[f]]

Aggregates(rows) == {StripDate(rows[i]) : i \in DOMAIN rows}

\* q is the quotient a / b.
IsQuotient(q, a, b) == q[2] > 0 /\ q[1] * b = a * q[2]

IsZero(q) == q[1] = 0 /\ q[2] > 0

\* The derived fields of row are those the formulas give for the sums bq, ba, sq, sa.
DerivedFrom(row, bq, ba, sq, sa) ==
  /\ row.net_quantity = bq - sq
  /\ IF bq > 0 THEN IsQuotient(row.avg_buy_price, ba, bq) ELSE IsZero(row.avg_buy_price)
  /\ IF sq > 0 THEN IsQuotient(row.avg_sell_price, sa, sq) ELSE IsZero(row.avg_sell_price)
  /\ IF bq - sq > 0 THEN IsQuotient(row.avg_holding_price, ba - sa, bq - sq)
     ELSE IsZero(row.avg_holding_price)

\* C1: frames A then B into a store S leave the same keys, each with the same
\* four sums and four derived fields, as the single frame A ++ B into S.
C1_MergeAssociative ==
  phase = "done" =>
    /\ store.kind = "table" /\ alt.kind = "table"
    /\ KeysOf(store) = KeysOf(alt)
    /\ Aggregates(store.rows) = Aggregates(alt.rows)
    /\ Cardinality(KeysOf(store)) = Len(store.rows)
    /\ Cardinality(KeysOf(alt)) = Len(alt.rows)

\* C1 witness: S, A and B all bought on one key, and A and B differ in their keys.
C1_Witness ==
  /\ phase = "done"
  /\ nrec > Len(first) + Len(second)
  /\ FrameKeys(first) # FrameKeys(second)
  /\ \E i \in DOMAIN store.rows : store.rows[i].buy_quantity >= 5

\* C2: after a run that read the previous store, a key of both the store and the
\* batch holds previous sums plus batch-local sums, and derived fields computed
\* from those sums.
C2_ExistingKeyAdds ==
  (ret = "True" /\ prev.kind = "table") =>
    \A i \in DOMAIN prev.rows : \A j \in DOMAIN AggDf(batch) :
      LET old == prev.rows[i]
          loc == AggDf(batch)[j]
          bq == old.buy_quantity + loc.buy_quantity
          ba == old.buy_amount + loc.buy_amount
          sq == old.sell_quantity + loc.sell_quantity
          sa == old.sell_amount + loc.sell_amount
      IN RowKey(old) = RowKey(loc) =>
           /\ CountOf(store.rows, RowKey(old)) = 1
           /\ \A row \in RowsOf(store.rows, RowKey(old)) :
                /\ row.buy_quantity = bq /\ row.buy_amount = ba
                /\ row.sell_quantity = sq /\ row.sell_amount = sa
                /\ DerivedFrom(row, bq, ba, sq, sa)

\* C2 witness: a merged key whose average buy price is neither the stored one
\* nor the batch's.
C2_Witness ==
  /\ ret = "True" /\ prev.kind = "table" /\ store.kind = "table"
  /\ \E i \in DOMAIN prev.rows : \E j \in DOMAIN AggDf(batch) : \E n \in DOMAIN store.rows :
       /\ RowKey(prev.rows[i]) = RowKey(AggDf(batch)[j])
       /\ RowKey(store.rows[n]) = RowKey(prev.rows[i])
       /\ store.rows[n].avg_buy_price # prev.rows[i].avg_buy_price
       /\ store.rows[n].avg_buy_price # AggDf(batch)[j].avg_buy_price
       /\ AggDf(batch)[j].buy_quantity > 0 /\ prev.rows[i].buy_quantity > 0

\* C3: after a run that read the previous store, a row whose key the batch does
\* not contain is in the new store once, every field as before.
C3_CarryForward ==
  (ret = "True" /\ prev.kind = "table") =>
    \A i \in DOMAIN prev.rows :
      RowKey(prev.rows[i]) \notin FrameKeys(batch) =>
        /\ CountOf(store.rows, RowKey(prev.rows[i])) = 1
        /\ RowsOf(store.rows, RowKey(prev.rows[i])) = {prev.rows[i]}

\* C3 witness: a carried row stamped with another date than the batch's.
C3_Witness ==
  /\ ret = "True" /\ prev.kind = "table" /\ store.kind = "table"
  /\ \E i \in DOMAIN prev.rows : \E n \in DOMAIN store.rows :
       /\ RowKey(prev.rows[i]) \notin FrameKeys(batch)
       /\ store.rows[n] = prev.rows[i]
       /\ prev.rows[i].last_updated # CurrentDate(batch)

\* C4: after a run, a key of the batch that the previous store did not hold (or
\* with no readable previous store) has the batch-local sums and derived fields.
C4_NewKeyIsBatchLocal ==
  ret = "True" =>
    \A j \in DOMAIN AggDf(batch) :
      RowKey(AggDf(batch)[j]) \notin KeysOf(prev) =>
        /\ CountOf(store.rows, RowKey(AggDf(batch)[j])) = 1
        /\ \A row \in RowsOf(store.rows, RowKey(AggDf(batch)[j])) :
             StripDate(row) = StripDate(AggDf(batch)[j])

\* C4 witness: a batch with a key new to a store that holds another of its keys.
C4_Witness ==
  /\ ret = "True" /\ prev.kind = "table" /\ store.kind = "table"
  /\ \E k \in FrameKeys(batch) : k \notin KeysOf(prev)
  /\ \E k \in FrameKeys(batch) : k \in KeysOf(prev)

\* C5: after every run returning True the store has exactly one row per key of
\* the frames merged so far.
C5_OneRowPerKeySeen ==
  ret = "True" =>
    /\ store.kind = "table"
    /\ KeysOf(store) = merged
    /\ Len(store.rows) = Cardinality(merged)

\* C6: the batch aggregator gives a frame and a permutation of it the same keys
\* with the same sums and derived fields.
C6_OrderIndependent ==
  phase = "done" =>
    /\ Len(aggFirst) = Len(aggSecond)
    /\ Aggregates(aggFirst) = Aggregates(aggSecond)
    /\ Cardinality(Aggregates(aggFirst)) = Len(aggFirst)

\* C6 witness: a reordered frame with two trades of different price on one key.
C6_Witness ==
  /\ phase = "done"
  /\ first # second
  /\ \E i \in DOMAIN aggFirst :
       aggFirst[i].buy_quantity >= 3 /\ aggFirst[i].avg_buy_price[2] > 1

\* C7: every stored row has net_quantity and the three averages its sums give,
\* 0 where the denominator is not positive.
C7_DerivedFields ==
  store.kind = "table" =>
    \A i \in DOMAIN store.rows :
      LET row == store.rows[i]
      IN DerivedFrom(row, row.buy_quantity, row.buy_amount,
                     row.sell_quantity, row.sell_amount)

\* C7 witness: a merged row that is net short with purchases on it.
C7_Witness ==
  /\ ret = "True" /\ prev.kind = "table" /\ store.kind = "table"
  /\ \E i \in DOMAIN store.rows :
       /\ RowKey(store.rows[i]) \in KeysOf(prev) \cap FrameKeys(batch)
       /\ store.rows[i].net_quantity < 0
       /\ store.rows[i].buy_quantity > 0
       /\ store.rows[i].avg_holding_price = Zero

\* C8: a run whose write fails or is cut short leaves the previous store.
C8_WriteFailureKeepsStore ==
  fault # "none" => store = prev

\* C9: a run that finds the store unreadable returns True and writes exactly the
\* batch-local aggregates.
C9_UnreadableStoreFallback ==
  (prev.kind = "corrupt" /\ batch # << >> /\ fault = "none") =>
    /\ ret = "True"
    /\ store = Table(AggDf(batch))

\* C9 witness: such a run.
C9_Witness ==
  /\ prev.kind = "corrupt" /\ batch # << >> /\ fault = "none"
  /\ store.kind = "table"

\* C10: a frame with a record lacking quantity or amount makes the run fail and
\* leaves the store as it was.
C10_MalformedFails ==
  (\E i \in DOMAIN batch : ~({"quantity", "amount"} \subseteq DOMAIN batch[i])) =>
    /\ ret = "False"
    /\ store = prev

\* C11 (as amended): a run on an empty frame returns False and leaves the store
\* as it was.
C11_EmptyBatchReturnsFalse ==
  (ret # "none" /\ batch = << >>) => (ret = "False" /\ store = prev)

\* C11 witness: an empty frame handed to a run on a store that holds a table.
C11_Witness ==
  ret # "none" /\ batch = << >> /\ store.kind = "table"

\* C11 (as claimed): a run on an empty frame reports success and leaves the store
\* as it was.
C11_EmptyBatchSucceeds ==
  (ret # "none" /\ batch = << >>) => (ret = "True" /\ store = prev)

\* Sum of column col over the records of df at the indices in I.
RECURSIVE SumAt(_, _, _)
SumAt(df, I, col) ==
  IF I = {} THEN 0
  ELSE LET i == CHOOSE n \in I : TRUE
       IN df[i][col] + SumAt(df, I \ {i}, col)

\* What the records of df trade on key as buyer or seller.
SideTotal(df, side, key, col) ==
  SumAt(df, {i \in DOMAIN df : SideKey(df[i], side) = key}, col)

\* The stored value of a column for a key, 0 when the file has no such row.
StoredSum(file, key, col) ==
  IF key \in KeysOf(file)
  THEN file.rows[CHOOSE n \in DOMAIN file.rows : RowKey(file.rows[n]) = key][col]
  ELSE 0

\* C17: a record whose buyer and seller are the same pair is on one row, which
\* gains the record's quantity and amount on its buy side and on its sell side.
C17_SelfTradeBothSides ==
  ret = "True" =>
    \A i \in DOMAIN batch :
      LET k == SideKey(batch[i], "buyer")
      IN k = SideKey(batch[i], "seller") =>
           /\ CountOf(store.rows, k) = 1
           /\ \A row \in RowsOf(store.rows, k) :
                /\ row.buy_quantity =
                     StoredSum(prev, k, "buy_quantity") + SideTotal(batch, "buyer", k, "quantity")
                /\ row.buy_amount =
                     StoredSum(prev, k, "buy_amount") + SideTotal(batch, "buyer", k, "amount")
                /\ row.sell_quantity =
                     StoredSum(prev, k, "sell_quantity") + SideTotal(batch, "seller", k, "quantity")
                /\ row.sell_amount =
                     StoredSum(prev, k, "sell_amount") + SideTotal(batch, "seller", k, "amount")
                /\ row.buy_quantity >= batch[i].quantity
                /\ row.sell_quantity >= batch[i].quantity

\* C17 witness: a self-trade merged into a stored row of its key, in a frame that
\* also trades between two brokers.
C17_Witness ==
  /\ ret = "True" /\ prev.kind = "table"
  /\ \E i \in DOMAIN batch :
       /\ SideKey(batch[i], "buyer") = SideKey(batch[i], "seller")
       /\ SideKey(batch[i], "buyer") \in KeysOf(prev)
  /\ \E i \in DOMAIN batch : SideKey(batch[i], "buyer") # SideKey(batch[i], "seller")

\* Sum of a column over rows.
RECURSIVE ColumnTotal(_, _)
ColumnTotal(rows, col) ==
  IF rows = << >> THEN 0 ELSE Head(rows)[col] + ColumnTotal(Tail(rows), col)

\* C20: in every stored table bought and sold quantities balance, bought and
\* sold amounts balance, and the net quantities sum to zero.
C20_Conservation ==
  store.kind = "table" =>
    /\ ColumnTotal(store.rows, "buy_quantity") = ColumnTotal(store.rows, "sell_quantity")
    /\ ColumnTotal(store.rows, "buy_amount") = ColumnTotal(store.rows, "sell_amount")
    /\ ColumnTotal(store.rows, "net_quantity") = 0

\* C20 witness: a merged table of two rows, one net long and one net short.
C20_Witness ==
  /\ ret = "True" /\ prev.kind = "table" /\ store.kind = "table"
  /\ \E i, j \in DOMAIN store.rows :
       store.rows[i].net_quantity > 0 /\ store.rows[j].net_quantity < 0

\* C18: a frame merged a second time into the store that already holds it adds
\* its batch-local sums again: each of its keys ends two contributions above S.
C18_ReplayDoubleCounts ==
  (phase = "second" /\ first = second) =>
    \A j \in DOMAIN AggDf(first) :
      LET loc == AggDf(first)[j]
          k == RowKey(loc)
      IN /\ CountOf(store.rows, k) = 1
         /\ \A row \in RowsOf(store.rows, k) :
              /\ row.buy_quantity = StoredSum(alt, k, "buy_quantity") + 2 * loc.buy_quantity
              /\ row.buy_amount = StoredSum(alt, k, "buy_amount") + 2 * loc.buy_amount
              /\ row.sell_quantity = StoredSum(alt, k, "sell_quantity") + 2 * loc.sell_quantity
              /\ row.sell_amount = StoredSum(alt, k, "sell_amount") + 2 * loc.sell_amount

\* C18 witness: a frame replayed onto a store S that already had one of its keys.
C18_Witness ==
  /\ phase = "second" /\ first = second
  /\ alt.kind = "table"
  /\ \E k \in FrameKeys(first) : k \in KeysOf(alt)

\* All rows of a table, as a set.
RowSet(rows) == {rows[i] : i \in DOMAIN rows}

\* C16: frames A and B with no key in common leave the same mapping from key to
\* row, last_updated included, merged as A then B or as B then A.
C16_DisjointCommute ==
  phase = "done" =>
    /\ store.kind = "table" /\ alt.kind = "table"
    /\ RowSet(store.rows) = RowSet(alt.rows)
    /\ Cardinality(KeysOf(store)) = Len(store.rows)
    /\ Cardinality(KeysOf(alt)) = Len(alt.rows)

\* C16 witness: A and B of different dates, each on a key S already held, written
\* in different row order by the two orders of merging.
C16_Witness ==
  /\ phase = "done"
  /\ store.kind = "table" /\ alt.kind = "table"
  /\ CurrentDate(first) # CurrentDate(second)
  /\ store.rows # alt.rows
  /\ \E i \in DOMAIN store.rows :
       /\ RowKey(store.rows[i]) \in FrameKeys(first)
       /\ store.rows[i].buy_quantity + store.rows[i].sell_quantity
            > SideTotal(first, "buyer", RowKey(store.rows[i]), "quantity")
              + SideTotal(first, "seller", RowKey(store.rows[i]), "quantity")

\* C15: for every key, the stored buy_quantity and sell_quantity of a table are
\* at least those of the table the store held before.
C15_QuantitiesNeverDecrease ==
  (store.kind = "table" /\ lastGood.kind = "table") =>
    \A i \in DOMAIN lastGood.rows :
      LET old == lastGood.rows[i]
      IN /\ RowKey(old) \in KeysOf(store)
         /\ StoredSum(store, RowKey(old), "buy_quantity") >= old.buy_quantity
         /\ StoredSum(store, RowKey(old), "sell_quantity") >= old.sell_quantity

\* C19: each row's last_updated is the date of the first record of the last
\* merged frame that had the row's key; a frame without the key leaves it alone.
C19_LastUpdated ==
  /\ store.kind = "table" =>
       \A i \in DOMAIN store.rows :
         store.rows[i].last_updated = touched[RowKey(store.rows[i])]
  /\ (ret = "True" /\ prev.kind = "table") =>
       \A i \in DOMAIN prev.rows :
         RowKey(prev.rows[i]) \notin FrameKeys(batch) =>
           \A row \in RowsOf(store.rows, RowKey(prev.rows[i])) :
             row.last_updated = prev.rows[i].last_updated

\* C19 witness: a stored row updated by a record that is not the frame's first and
\* carries another date than the first, beside a row the frame left alone.
C19_Witness ==
  /\ ret = "True" /\ prev.kind = "table" /\ store.kind = "table"
  /\ \E i \in DOMAIN batch : \E n \in DOMAIN store.rows :
       /\ batch[i].date # batch[1].date
       /\ SideKey(batch[i], "buyer") \notin FrameKeys(<< batch[1] >>)
       /\ SideKey(batch[i], "buyer") \in KeysOf(prev)
       /\ RowKey(store.rows[n]) = SideKey(batch[i], "buyer")
       /\ store.rows[n].last_updated = batch[1].date

\* C12: saving the frame of a save once more leaves the raw store as the first
\* save left it.
C12_ResaveIdempotent ==
  resaved => (rawRet = "True" /\ raw = rawPrev)

\* C12 witness: a frame saved twice onto a store that held rows before it.
C12_Witness ==
  /\ resaved /\ raw.kind = "table"
  /\ Len(rawBatch) >= 1
  /\ Len(raw.rows) > Len(rawBatch)

\* The records of df whose (date, transaction_no) no row of rows has.
RawNew(df, rows) ==
  SelectSeq(df, LAMBDA r : \A i \in DOMAIN rows :
                   << rows[i].date, rows[i].transaction_no >> # << r.date, r.transaction_no >>)

\* C13: a save onto a readable store writes the previous rows as they were,
\* followed by exactly the batch rows whose (date, transaction_no) was not stored.
C13_AppendOnlyNewKeys ==
  (rawRet = "True" /\ rawPrev.kind = "table") =>
    /\ raw.kind = "table"
    /\ raw.rows = rawPrev.rows \o RawNew(DropKey(rawBatch), rawPrev.rows)

\* C13 witness: a batch with a row of a stored key and different content, which is
\* dropped, and a row of a new key, which is appended.
C13_Witness ==
  /\ rawRet = "True" /\ rawPrev.kind = "table" /\ raw.kind = "table"
  /\ Len(raw.rows) = Len(rawPrev.rows) + 1
  /\ \E i \in DOMAIN rawBatch : \E j \in DOMAIN rawPrev.rows :
       /\ rawBatch[i].date = rawPrev.rows[j].date
       /\ rawBatch[i].transaction_no = rawPrev.rows[j].transaction_no
       /\ rawBatch[i].quantity # rawPrev.rows[j].quantity

\* C14: after every save returning True the raw store has exactly one row per
\* (date, transaction_no) of the frames saved so far.
C14_OneRowPerRawKey ==
  rawRet = "True" =>
    /\ raw.kind = "table"
    /\ RawKeys(raw.rows) = rawSeen
    /\ Len(raw.rows) = Cardinality(rawSeen)

====
